---- MODULE Spec2Model ----
(***************************************************************************)
(* A model of JellyCli (main.py): the API client's get_child_items         *)
(* post-processing, the recursive interactive navigator browse_interactive *)
(* with its call stack and shared mutable path, and play_video.            *)
(***************************************************************************)
EXTENDS Integers, Sequences, FiniteSets, TLC

\* ---------------------------------------------------------------- bounds
MaxItems == 2    \* longest item list the server returns to the navigator
MaxInputs == 3   \* input lines read in one session
MaxLen == 3      \* longest item list handed to get_child_items on its own

\* ------------------------------------------------------------ python bits
\* Optional[str]: None is <<>>, a value x is <<x>>.
None == <<>>
Some(x) == <<x>>

\* dict.get(key, default)
Get(d, key, default) == IF key \in DOMAIN d THEN d[key] ELSE default

\* dict.get(key) used as a condition / compared to a constant
Truthy(d, key) == key \in DOMAIN d /\ d[key] = TRUE
GetIs(d, key, v) == key \in DOMAIN d /\ d[key] = v

Last(s) == s[Len(s)]
Front(s) == SubSeq(s, 1, Len(s) - 1)

\* ------------------------------------------------------------------ items
\* Item records as the server returns them; optional keys may be absent.
NavCatalog ==
  { [Id |-> "1", Name |-> "Movies", IsFolder |-> TRUE, Type |-> "CollectionFolder"],
    [Id |-> "2", Name |-> "Show", IsFolder |-> TRUE, Type |-> "Series"],
    [Id |-> "3", Name |-> "Ep2", IsFolder |-> FALSE, Type |-> "Episode",
     VideoType |-> "VideoFile", IndexNumber |-> 2],
    [Id |-> "4", Name |-> "Extra", Type |-> "Episode", VideoType |-> "Iso"] }

SortCatalog ==
  { [Id |-> "a", Type |-> "Episode", IndexNumber |-> 2],
    [Id |-> "b", Type |-> "Episode"],
    [Id |-> "c", Type |-> "Episode", IndexNumber |-> 0],
    [Id |-> "d", Type |-> "Movie", IndexNumber |-> 1],
    [Id |-> "e", Type |-> "Episode", IndexNumber |-> 1],
    [Id |-> "f"] }

SeqsUpTo(S, n) == UNION { [1..k -> S] : k \in 0..n }

\* What the server may answer to one navigator request.
Responses == SeqsUpTo(NavCatalog, MaxItems)

\* --------------------------------------------- get_child_items: the sort
SortKey_missing_last(x) == Get(x, "IndexNumber", 99)

\* key=lambda x: x.get('IndexNumber', 0)
SortKey(x) == Get(x, "IndexNumber", 0)

\* list.sort(key=...) is stable: insert each element after the elements
\* whose key is not greater.
RECURSIVE InsertSorted(_, _)
InsertSorted(x, s) ==
  IF s = <<>> THEN <<x>>
  ELSE IF SortKey(x) < SortKey(Head(s)) THEN <<x>> \o s
  ELSE <<Head(s)>> \o InsertSorted(x, Tail(s))

RECURSIVE SortByKey(_)
SortByKey(s) ==
  IF s = <<>> THEN <<>>
  ELSE InsertSorted(Last(s), SortByKey(Front(s)))

\* if items and items[0].get('Type') == 'Episode'
IsEpisodeList(its) == its # <<>> /\ GetIs(its[1], "Type", "Episode")

\* get_child_items applied to the 'Items' array of the response
get_child_items(its) == IF IsEpisodeList(its) THEN SortByKey(its) ELSE its

\* get_collections returns the 'Items' array as it is
get_collections(its) == its

\* ------------------------------------------------------------ user input
\* A line typed by the user, as a sequence of characters.
DigitChars == <<"0", "1", "2", "3", "4", "5", "6", "7", "8", "9">>
DigitOf(c) == (CHOOSE i \in 1..10 : DigitChars[i] = c) - 1
IsDigit(c) == \E i \in 1..10 : DigitChars[i] = c
IsSpace(c) == c \in {" ", "\t"}

RawInputs ==
  { <<"q">>, <<" ", "Q">>, <<"b">>, <<"B", " ">>, <<"x">>, <<>>, <<"-", "1">> }
  \cup { <<DigitChars[n + 1]>> : n \in 0..(MaxItems + 1) }

\* str.strip()
RECURSIVE LStrip(_)
LStrip(s) == IF s # <<>> /\ IsSpace(Head(s)) THEN LStrip(Tail(s)) ELSE s
RECURSIVE RStrip(_)
RStrip(s) == IF s # <<>> /\ IsSpace(Last(s)) THEN RStrip(Front(s)) ELSE s
Strip(s) == RStrip(LStrip(s))

\* str.lower()
LowerChar(c) ==
  CASE c = "Q" -> "q" [] c = "B" -> "b" [] c = "X" -> "x" [] OTHER -> c
Lower(s) == [i \in 1..Len(s) |-> LowerChar(s[i])]

\* int(choice): optional sign, then one or more digits; anything else is a
\* ValueError.
HasSign(s) == s # <<>> /\ Head(s) \in {"+", "-"}
Digits(s) == IF HasSign(s) THEN Tail(s) ELSE s
IsIntLiteral(s) ==
  LET d == Digits(Strip(s)) IN d # <<>> /\ \A i \in 1..Len(d) : IsDigit(d[i])
RECURSIVE DigitsValue(_)
DigitsValue(d) ==
  IF d = <<>> THEN 0 ELSE 10 * DigitsValue(Front(d)) + DigitOf(Last(d))
IntValue(s) ==
  LET t == Strip(s) IN
  IF HasSign(t) /\ Head(t) = "-" THEN 0 - DigitsValue(Digits(t))
  ELSE DigitsValue(Digits(t))

\* ------------------------------------------------------- navigator state
VARIABLES
  stack,       \* active browse_interactive calls, outermost first; each frame
               \* is [parent_id, site]: its argument and the line it is at
  path,        \* the one list object every call shares
  items,       \* local `items` of the innermost call (<<>> before it is set)
  choice,      \* the last line read by input(), stripped and lower-cased
  pc,          \* "await_response", "prompt", "returning", "raising", "done",
               \* or "sort_call" / "sort_done" for get_child_items on its own
  exc,         \* the exception being propagated while pc = "raising"
  exitStatus,  \* process exit status once pc = "done", -1 before
  lastCall,    \* the last API call issued
  header,      \* the last breadcrumb header printed
  nfetch,      \* API requests issued
  nrender,     \* item lists displayed
  ninput,      \* input lines read
  nlaunch,     \* Popen attempts made by play_video
  descents,    \* folder selections handled
  backs,       \* "b" inputs that popped the path
  failed,      \* a request has raised requests.RequestException
  spawned,     \* how the Popen of the last input handled ended, or "none"
  srv          \* the 'Items' array handed to get_child_items on its own

vars ==
  << stack, path, items, choice, pc, exc, exitStatus, lastCall, header, nfetch,
     nrender, ninput, nlaunch, descents, backs, failed, spawned, srv >>

counters == << nfetch, nrender, ninput, nlaunch >>

Top == stack[Len(stack)]

\* Lines of browse_interactive at which a frame is calling out.
FetchSite(parent_id) == IF parent_id = None THEN 104 ELSE 107

\* The try block spans lines 133-150; the calls at 129 and 153 are outside.
InTry(site) == site \in {141, 143, 144, 147, 150}

\* The API call a frame makes first (lines 103-107).
ApiCall(parent_id) ==
  IF parent_id = None THEN <<"get_collections">>
  ELSE <<"get_child_items", parent_id[1]>>

\* ' > '.join(path)
RECURSIVE Join(_)
Join(p) ==
  IF p = <<>> THEN ""
  ELSE IF Len(p) = 1 THEN p[1]
  ELSE p[1] \o " > " \o Join(Tail(p))

Header_last_entry(parent_id, p) ==
  IF parent_id = None THEN "=== Collections ===" ELSE "=== " \o Last(p) \o " ==="

\* The header printed at lines 105 / 108 (without the leading newline).
Header(parent_id, p) ==
  IF parent_id = None THEN "=== Collections ===" ELSE "=== " \o Join(p) \o " ==="

\* ----------------------------------------------------- calls and returns
Enter_loop(site, parent_id) ==
  /\ stack' = Front(stack) \o <<[parent_id |-> parent_id, site |-> FetchSite(parent_id)]>>
  /\ items' = <<>>
  /\ lastCall' = ApiCall(parent_id)
  /\ nfetch' = nfetch + 1
  /\ pc' = "await_response"
  /\ exc' = "None"

\* The innermost frame, at line `site`, calls browse_interactive(server,
\* parent_id, path); the new frame issues its request (lines 97-107).
Enter(site, parent_id) ==
  /\ stack' = [stack EXCEPT ![Len(stack)].site = site]
                \o <<[parent_id |-> parent_id, site |-> FetchSite(parent_id)]>>
  /\ items' = <<>>
  /\ lastCall' = ApiCall(parent_id)
  /\ nfetch' = nfetch + 1
  /\ pc' = "await_response"
  /\ exc' = "None"

\* The innermost frame executes `return` (lines 112, 124, 130).
ReturnNow ==
  /\ pc' = "returning"
  /\ UNCHANGED << stack, items, lastCall, nfetch, exc >>

\* An exception leaves the innermost frame at line `site`.
Raise(site, e) ==
  /\ stack' = [stack EXCEPT ![Len(stack)].site = site]
  /\ pc' = "raising"
  /\ exc' = e
  /\ UNCHANGED << items, lastCall, nfetch >>

\* ------------------------------------------------------------ play_video
SpawnOutcomes == {"ok", "FileNotFoundError", "OSError"}

PlayCatches_notfound_only(e) == e = "FileNotFoundError"

\* except FileNotFoundError / except Exception (lines 166-169); SystemExit
\* and KeyboardInterrupt are not Exceptions.
PlayCatches(e) ==
  e = "FileNotFoundError" \/ e \notin {"SystemExit", "KeyboardInterrupt"}

\* The exception that leaves play_video when Popen ends as `spawn`.
play_video(spawn) ==
  IF spawn = "ok" \/ PlayCatches(spawn) THEN "None" ELSE spawn

\* ----------------------------------------------------- input dispatching
HandlerCatches_bare(e) == TRUE

\* except ValueError (line 151)
HandlerCatches(e) == e = "ValueError"

InRange_from_minus_one(index, n) == -1 <= index /\ index < n

\* 0 <= index < len(items) (line 134)
InRange(index, n) == 0 <= index /\ index < n

\* items[index], with Python's negative indexing
ItemAt(its, index) ==
  IF index < 0 THEN its[Len(its) + index + 1] ELSE its[index + 1]

Pop_first(p) == Tail(p)

\* path.pop() (line 127)
Pop(p) == Front(p)

\* new_parent = path[-1] if path else None (line 128)
NewParent(p) == IF p # <<>> THEN Some(Last(p)) ELSE None

Push_front(p, item_id) == <<item_id>> \o p

\* path.append(item_id) (line 140)
Push(p, item_id) == Append(p, item_id)

\* choice == 'q' (lines 123-124)
Quit ==
  /\ ReturnNow
  /\ spawned' = "none"
  /\ UNCHANGED << path, nlaunch, descents, backs >>

Back_rerender ==
  /\ IF Len(path) > 0
       THEN /\ path' = Pop(path)
            /\ backs' = backs + 1
       ELSE UNCHANGED << path, backs >>
  /\ Enter(129, NewParent(path'))
  /\ spawned' = "none"
  /\ UNCHANGED << nlaunch, descents >>

\* choice == 'b' (lines 125-130)
Back ==
  IF Len(path) > 0
    THEN /\ path' = Pop(path)
         /\ backs' = backs + 1
         /\ Enter(129, NewParent(path'))
         /\ spawned' = "none"
         /\ UNCHANGED << nlaunch, descents >>
    ELSE /\ ReturnNow
         /\ spawned' = "none"
         /\ UNCHANGED << path, nlaunch, descents, backs >>

\* item.get('IsFolder') is true (lines 139-141)
Descend(item) ==
  /\ path' = Push(path, item.Id)
  /\ descents' = descents + 1
  /\ Enter(141, Some(item.Id))
  /\ spawned' = "none"
  /\ UNCHANGED << nlaunch, backs >>

\* item.get('VideoType') == 'VideoFile' (lines 142-144)
Play(item) ==
  \E spawn \in SpawnOutcomes :
    /\ nlaunch' = nlaunch + 1
    /\ spawned' = spawn
    /\ IF play_video(spawn) = "None"
         THEN Enter(144, Top.parent_id)
         ELSE Raise(143, play_video(spawn))
    /\ UNCHANGED << path, descents, backs >>

\* "Cannot play item" (lines 145-147)
CannotPlay ==
  /\ Enter(147, Top.parent_id)
  /\ spawned' = "none"
  /\ UNCHANGED << path, nlaunch, descents, backs >>

\* "Invalid selection." (lines 148-150)
InvalidSelection ==
  /\ Enter(150, Top.parent_id)
  /\ spawned' = "none"
  /\ UNCHANGED << path, nlaunch, descents, backs >>

\* int(choice) raised ValueError: "Invalid input." (lines 151-153)
InvalidInput ==
  /\ IF HandlerCatches("ValueError")
       THEN Enter(153, Top.parent_id)
       ELSE Raise(133, "ValueError")
  /\ spawned' = "none"
  /\ UNCHANGED << path, nlaunch, descents, backs >>

\* lines 132-150 for a choice that int() accepts
Select(index) ==
  IF InRange(index, Len(items))
    THEN LET item == ItemAt(items, index) IN
         IF Truthy(item, "IsFolder") THEN Descend(item)
         ELSE IF GetIs(item, "VideoType", "VideoFile") THEN Play(item)
         ELSE CannotPlay
    ELSE InvalidSelection

\* ---------------------------------------------------------------- actions
\* main() with no flag: browse_interactive(server) has been called and its
\* get_collections request is in flight.
Init ==
  /\ stack = <<[parent_id |-> None, site |-> FetchSite(None)]>>
  /\ path = <<>>
  /\ items = <<>>
  /\ choice = <<>>
  /\ pc = "await_response"
  /\ exc = "None"
  /\ exitStatus = -1
  /\ lastCall = ApiCall(None)
  /\ header = ""
  /\ nfetch = 1
  /\ nrender = 0
  /\ ninput = 0
  /\ nlaunch = 0
  /\ descents = 0
  /\ backs = 0
  /\ failed = FALSE
  /\ spawned = "none"
  /\ srv = <<>>

\* The request succeeds: lines 41, 50 / 56-62, then 105 / 108 and 110-121.
ResponseOk ==
  /\ pc = "await_response"
  /\ \E r \in Responses :
       LET its == IF Top.parent_id = None THEN get_collections(r)
                  ELSE get_child_items(r)
       IN /\ items' = its
          /\ header' = Header(Top.parent_id, path)
          /\ IF its = <<>>
               THEN /\ pc' = "returning"
                    /\ UNCHANGED << stack, nrender >>
               ELSE /\ pc' = "prompt"
                    /\ nrender' = nrender + 1
                    /\ stack' = [stack EXCEPT ![Len(stack)].site = 121]
  /\ UNCHANGED << path, choice, exc, exitStatus, lastCall, nfetch, ninput,
                  nlaunch, descents, backs, failed, spawned, srv >>

\* The request raises requests.RequestException: lines 42-44, sys.exit(1).
ResponseFail ==
  /\ pc = "await_response"
  /\ failed' = TRUE
  /\ Raise(Top.site, "SystemExit")
  /\ UNCHANGED << path, choice, exitStatus, header, nrender, ninput, nlaunch,
                  descents, backs, spawned, srv >>

\* input() returns a line: lines 121-153 up to the next request or return.
ReadChoice ==
  /\ pc = "prompt"
  /\ ninput < MaxInputs
  /\ \E raw \in RawInputs :
       LET c == Lower(Strip(raw)) IN
       /\ choice' = c
       /\ ninput' = ninput + 1
       /\ IF c = <<"q">> THEN Quit
          ELSE IF c = <<"b">> THEN Back
          ELSE IF IsIntLiteral(c) THEN Select(IntValue(c) - 1)
          ELSE InvalidInput
  /\ UNCHANGED << exitStatus, header, nrender, failed, srv >>

\* A frame returns; its caller resumes after the call, where the function
\* ends (lines 130, 141-153), so the caller returns next.
ReturnFrame ==
  /\ pc = "returning"
  /\ stack' = Front(stack)
  /\ items' = <<>>
  /\ IF Len(stack) = 1
       THEN pc' = "done" /\ exitStatus' = 0
       ELSE pc' = "returning" /\ UNCHANGED exitStatus
  /\ UNCHANGED << path, choice, exc, lastCall, header, nfetch, nrender, ninput,
                  nlaunch, descents, backs, failed, spawned, srv >>

\* An exception reaches a frame: caught by `except ValueError` when the
\* frame is inside the try block, otherwise it leaves the frame; an
\* exception that leaves the outermost frame ends the process with status 1.
PropagateFrame ==
  /\ pc = "raising"
  /\ IF InTry(Top.site) /\ HandlerCatches(exc)
       THEN /\ Enter(153, Top.parent_id)
            /\ UNCHANGED exitStatus
       ELSE /\ stack' = Front(stack)
            /\ items' = <<>>
            /\ IF Len(stack) = 1
                 THEN pc' = "done" /\ exitStatus' = 1
                 ELSE pc' = "raising" /\ UNCHANGED exitStatus
            /\ UNCHANGED << exc, lastCall, nfetch >>
  /\ UNCHANGED << path, choice, header, nrender, ninput, nlaunch, descents,
                  backs, failed, spawned, srv >>

Next == ResponseOk \/ ResponseFail \/ ReadChoice \/ ReturnFrame \/ PropagateFrame

Spec == Init /\ [][Next]_vars

\* -------------------------------------------- get_child_items on its own
InitSort ==
  /\ srv \in SeqsUpTo(SortCatalog, MaxLen)
  /\ pc = "sort_call"
  /\ stack = <<>>
  /\ path = <<>>
  /\ items = <<>>
  /\ choice = <<>>
  /\ exc = "None"
  /\ exitStatus = -1
  /\ lastCall = <<>>
  /\ header = ""
  /\ nfetch = 0
  /\ nrender = 0
  /\ ninput = 0
  /\ nlaunch = 0
  /\ descents = 0
  /\ backs = 0
  /\ failed = FALSE
  /\ spawned = "none"

\* items = data.get('Items', []), then lines 59-62
SortCall ==
  /\ pc = "sort_call"
  /\ items' = get_child_items(srv)
  /\ pc' = "sort_done"
  /\ UNCHANGED << stack, path, choice, exc, exitStatus, lastCall, header,
                  nfetch, nrender, ninput, nlaunch, descents, backs, failed, spawned, srv >>

NextSort == SortCall

SpecSort == InitSort /\ [][NextSort]_vars

\* ================================================================ claims
\* A step in which input() returns a line and the navigator handles it.
ReadStep == pc = "prompt" /\ ninput' = ninput + 1

\* The line just read is an integer N, as int() parses it.
ReadInt == IsIntLiteral(choice')
ReadN == IntValue(choice')
ReadInRange == ReadInt /\ 1 <= ReadN /\ ReadN <= Len(items)

\* The frame that was reading input is now suspended under a new frame that
\* was called with the same parent_id and has re-issued the same API call.
SameNodeRefetched ==
  /\ path' = path
  /\ Len(stack') = Len(stack) + 1
  /\ stack'[Len(stack')].parent_id = Top.parent_id
  /\ lastCall' = lastCall
  /\ nfetch' = nfetch + 1
  /\ items' = <<>>
  /\ pc' = "await_response"

\* What a successful response to the request in flight puts on the screen:
\* the items of that response for the node requested, under its header.
RendersRequestedNode ==
  [][(pc = "await_response" /\ pc' = "prompt")
       => /\ lastCall' = lastCall
          /\ path' = path
          /\ nrender' = nrender + 1
          /\ \E r \in Responses :
               items' = IF lastCall = <<"get_collections">> THEN r
                        ELSE get_child_items(r)]_vars

\* C1: an integer input N with N < 1 or N > len(items), at any node showing a
\* non-empty item list, leaves (path, parentId) as they were, and the node
\* fetched and rendered next is the same node.
C1_OutOfRangeKeepsNode ==
  /\ [][(ReadStep /\ items # <<>> /\ ReadInt /\ (ReadN < 1 \/ ReadN > Len(items)))
          => SameNodeRefetched]_vars
  /\ RendersRequestedNode

C1_Witness ==
  /\ pc = "prompt"
  /\ Len(stack) = 3
  /\ stack[1].site = 141
  /\ stack[2].site = 150
  /\ choice = <<DigitChars[MaxItems + 2]>>
  /\ path # <<>>

\* C2 as stated: "b" with an empty path is a no-op that fetches and renders
\* the root collections again, the session still running.
C2_BackAtRootRerenders ==
  [][(ReadStep /\ path = <<>> /\ choice' = <<"b">>)
       => /\ path' = <<>>
          /\ lastCall' = <<"get_collections">>
          /\ nfetch' = nfetch + 1
          /\ pc' = "await_response"]_vars

\* C2 amended: "b" with an empty path never raises and leaves the path
\* empty, but nothing is fetched or rendered again: the call returns, every
\* enclosing call returns after it, and the process ends with status 0
\* without reading more input.
C2_BackAtRootReturns ==
  /\ [][(ReadStep /\ path = <<>> /\ choice' = <<"b">>)
          => /\ path' = <<>>
             /\ pc' = "returning"
             /\ exc' = "None"
             /\ UNCHANGED << stack, nfetch, nrender >>]_vars
  /\ [][pc = "returning"
          => /\ pc' \in {"returning", "done"}
             /\ Len(stack') = Len(stack) - 1
             /\ (pc' = "done" <=> stack' = <<>>)
             /\ (pc' = "done" => exitStatus' = 0)
             /\ UNCHANGED << path, nfetch, nrender, ninput, nlaunch >>]_vars
  /\ [][pc = "done" => UNCHANGED vars]_vars

C2_Witness ==
  /\ pc = "done"
  /\ exitStatus = 0
  /\ choice = <<"b">>
  /\ path = <<>>
  /\ ninput = 2
  /\ nfetch = 2

\* ' > '.join(path), folded from the left.
RECURSIVE Crumbs(_)
Crumbs(p) ==
  IF Len(p) = 1 THEN p[1] ELSE Crumbs(Front(p)) \o " > " \o Last(p)

\* A header has just been printed for the innermost call's node.
AtRender == pc = "prompt" \/ (pc = "returning" /\ Top.site \in {104, 107})

\* C3: at every render len(path) is the number of folder descents minus the
\* number of effective back steps, the node shown is the root exactly when
\* path is empty and otherwise the folder named by the last path entry, and
\* the header is the path joined with " > " ("Collections" at the root).
C3_PathIsDepthAndHeader ==
  AtRender =>
    /\ Len(path) = descents - backs
    /\ (lastCall = <<"get_collections">> <=> path = <<>>)
    /\ (path # <<>> => lastCall = <<"get_child_items", Last(path)>>)
    /\ (Top.parent_id = None <=> path = <<>>)
    /\ header = IF path = <<>> THEN "=== Collections ==="
                ELSE "=== " \o Crumbs(path) \o " ==="

C3_Witness ==
  /\ pc = "prompt"
  /\ path = <<"1">>
  /\ descents = 2
  /\ backs = 1
  /\ header = "=== 1 ==="

\* C4: an in-range input N whose item is a folder appends exactly that
\* item's id to path, and the next API call is get_child_items of that id,
\* whose response is what is rendered next.
C4_FolderSelectionDescends ==
  /\ [][(ReadStep /\ ReadInRange /\ Truthy(items[ReadN], "IsFolder"))
          => /\ path' = path \o <<items[ReadN].Id>>
             /\ lastCall' = <<"get_child_items", items[ReadN].Id>>
             /\ nfetch' = nfetch + 1
             /\ Len(stack') = Len(stack) + 1
             /\ pc' = "await_response"]_vars
  /\ RendersRequestedNode

C4_Witness ==
  /\ pc = "prompt"
  /\ ninput = 1
  /\ choice = <<"1">>
  /\ path = <<"1">>
  /\ lastCall = <<"get_child_items", "1">>
  /\ nrender = 2

\* C5: "b" with a non-empty path removes exactly the last path entry; the
\* next API call is get_collections when the path is now empty and otherwise
\* get_child_items of the new last entry; the parent's items are fetched
\* anew and rendered.
C5_BackPopsAndRefetchesParent ==
  /\ [][(ReadStep /\ path # <<>> /\ choice' = <<"b">>)
          => /\ Len(path') = Len(path) - 1
             /\ \A i \in 1..Len(path') : path'[i] = path[i]
             /\ lastCall' = IF Len(path) = 1 THEN <<"get_collections">>
                            ELSE <<"get_child_items", path[Len(path) - 1]>>
             /\ nfetch' = nfetch + 1
             /\ items' = <<>>
             /\ pc' = "await_response"]_vars
  /\ RendersRequestedNode

C5_Witness ==
  /\ pc = "prompt"
  /\ choice = <<"b">>
  /\ path = <<"1">>
  /\ backs = 1
  /\ descents = 2
  /\ lastCall = <<"get_child_items", "1">>

\* The index a missing IndexNumber counts as.
IndexOrZero(x) == IF "IndexNumber" \in DOMAIN x THEN x.IndexNumber ELSE 0

\* `out` is `in` rearranged by a stable sort on IndexOrZero.
StablySorted(in, out) ==
  /\ Len(out) = Len(in)
  /\ \E f \in [1..Len(in) -> 1..Len(in)] :
       /\ \A i \in 1..Len(in) : out[i] = in[f[i]]
       /\ \A i, j \in 1..Len(in) :
            i < j => /\ f[i] # f[j]
                     /\ IndexOrZero(out[i]) <= IndexOrZero(out[j])
                     /\ (IndexOrZero(out[i]) = IndexOrZero(out[j]) => f[i] < f[j])

\* C6: get_child_items returns the server's items stably sorted by
\* IndexNumber (missing counts as 0) when the first item's Type is
\* "Episode", and otherwise (empty list, or another first Type) unchanged.
C6_EpisodesStablySorted ==
  pc = "sort_done" =>
    IF srv # <<>> /\ "Type" \in DOMAIN srv[1] /\ srv[1].Type = "Episode"
      THEN StablySorted(srv, items)
      ELSE items = srv

C6_Witness ==
  /\ pc = "sort_done"
  /\ Len(srv) = 3
  /\ srv[1].Id = "a"
  /\ srv[2].Id = "b"
  /\ srv[3].Id = "c"
  /\ items = <<srv[2], srv[3], srv[1]>>

\* C7: a failed request is fatal: it is not retried, the exception leaves
\* every navigator frame in turn, the process ends with status 1, and no
\* fetch, render, input read or player launch follows the failure.
C7_RequestFailureIsFatal ==
  /\ [][(~failed /\ failed')
          => /\ pc' = "raising"
             /\ exc' = "SystemExit"
             /\ UNCHANGED << counters, path >>]_vars
  /\ [][failed
          => /\ pc = "raising"
             /\ pc' \in {"raising", "done"}
             /\ Len(stack') = Len(stack) - 1
             /\ (pc' = "done" <=> stack' = <<>>)
             /\ (pc' = "done" => exitStatus' = 1)
             /\ UNCHANGED << counters, path, failed >>]_vars

C7_Witness ==
  /\ pc = "done"
  /\ failed
  /\ exitStatus = 1
  /\ Len(path) = 2
  /\ ninput = 3

\* C8: selecting a non-folder item whose VideoType is "VideoFile" makes one
\* Popen attempt and then fetches the same node again with (path, parentId)
\* unchanged, however the attempt ended; a non-folder item of another
\* VideoType makes no attempt and also leaves (path, parentId) unchanged.
C8_PlayKeepsNode ==
  /\ [][(ReadStep /\ ReadInRange /\ ~Truthy(items[ReadN], "IsFolder"))
          => /\ SameNodeRefetched
             /\ exc' = "None"
             /\ IF GetIs(items[ReadN], "VideoType", "VideoFile")
                  THEN nlaunch' = nlaunch + 1 /\ spawned' \in SpawnOutcomes
                  ELSE nlaunch' = nlaunch /\ spawned' = "none"]_vars
  /\ RendersRequestedNode

C8_Witness ==
  /\ pc = "prompt"
  /\ spawned = "OSError"
  /\ nlaunch = 1
  /\ path = <<"2">>
  /\ Top.parent_id = Some("2")
  /\ Len(stack) = 3

\* The session is fetching or waiting for input.
Running == pc \in {"await_response", "prompt"}

\* C9 as stated: the number of active browse_interactive calls is
\* len(path) + 1 at every point of a session.
C9_FramesEqualDepth == pc # "done" => Len(stack) = Len(path) + 1

\* C9 amended: while the session is fetching or waiting for input, the
\* number of active calls is one more than the number of inputs read so far;
\* it is at least len(path) + 1, with equality exactly when every input so
\* far selected a folder.
C9_FramesEqualInputs ==
  Running =>
    /\ Len(stack) = ninput + 1
    /\ Len(stack) >= Len(path) + 1
    /\ (Len(stack) = Len(path) + 1 <=> descents = ninput)

C9_Witness ==
  /\ pc = "prompt"
  /\ Len(stack) = 4
  /\ path = <<>>
  /\ backs = 1
  /\ stack[2].site = 150

\* C10 as stated: once a node has been fetched an input is read before the
\* session can end, and a session ends only on "q", on "b" at the root, or
\* on a failed request.
C10_EndsOnlyOnInput ==
  (pc \in {"returning", "done"} /\ ~failed)
    => /\ ninput = nfetch
       /\ (choice = <<"q">> \/ (choice = <<"b">> /\ path = <<>>))

====
